---- MODULE Spec2Model ----
(***************************************************************************)
(* pncdump (src/src/PseudoNetCDF/pncdump.py): the recursive CDL renderer.  *)
(* One render of a container tree is modelled as a stack machine: a frame  *)
(* per active pncdump call, one action per statement that writes to        *)
(* sys.stdout (or computes a value the data loops depend on).  Every write *)
(* may succeed, raise IOError (broken pipe) or be pre-empted by a          *)
(* KeyboardInterrupt; the try/except blocks of the source decide what      *)
(* happens next.                                                           *)
(***************************************************************************)
EXTENDS Integers, Sequences, FiniteSets, TLC

VARIABLES
    tree,       \* parent[] of the container tree, nodes numbered in preorder
    rootVars,   \* f.variables of the top-level container
    groupVars,  \* f.variables of every nested group
    args,       \* header, variables, full_indices of the top-level call
    stack,      \* active pncdump calls, innermost last
    out,        \* the sequence of sys.stdout.write calls that succeeded
    warnings,   \* messages passed to warnings.warn
    status,     \* "running", "returned", "exit" or the uncaught exception
    sink,       \* sys.stdout: "open" or "closed"
    flushes,    \* Len(out) at each sys.stdout.flush()
    faults      \* the IOError / KeyboardInterrupt raised so far, where and when

vars == <<tree, rootVars, groupVars, args, stack, out, warnings, status, sink, flushes, faults>>

----------------------------------------------------------------------------
(* Bounds of the model *)

\* most containers (top-level + groups) in one tree
MaxNodes == 3
\* size of the last dimension "x" of the modelled containers
SizeX == 2
\* most faults (IOError / KeyboardInterrupt) injected in one render
MaxFaults == 1

----------------------------------------------------------------------------
(* Program constants *)

float_precision == 8
double_precision == 16

None == "None"

----------------------------------------------------------------------------
(* The input: container trees *)

\* ancestors of node n (n excluded) under parent array p
RECURSIVE Ancestors(_, _)
Ancestors(p, n) ==
    IF p[n] = 0 THEN {} ELSE {p[n]} \cup Ancestors(p, p[n])

\* p numbers an ordered tree in preorder: the parent of node i is node i-1 or
\* one of its ancestors
IsPreorder(p) ==
    /\ p[1] = 0
    /\ \A i \in 2..Len(p) : p[i] \in {i - 1} \cup Ancestors(p, i - 1)

Trees ==
    UNION { { p \in [1..n -> 0..(n - 1)] : IsPreorder(p) } : n \in 1..MaxNodes }

RECURSIVE SeqOfSet(_)
SeqOfSet(S) ==
    IF S = {} THEN <<>>
    ELSE LET m == CHOOSE x \in S : \A y \in S : x <= y
         IN  <<m>> \o SeqOfSet(S \ {m})

\* f.groups of node n, in insertion order
Groups(n) == SeqOfSet({ j \in 1..Len(tree) : tree[j] = n })

\* hasattr(f, 'groups'): a group container always has the mapping, a plain
\* top-level file has it only when it holds groups
HasGroups(n) == n # 1 \/ Groups(n) # <<>>

Depth(n) == Cardinality(Ancestors(tree, n))

\* f.dimensions of every container, in insertion order
Dimensions ==
    << [name |-> "t", size |-> 1, unlimited |-> TRUE],
       [name |-> "y", size |-> 2, unlimited |-> FALSE],
       [name |-> "x", size |-> SizeX, unlimited |-> FALSE] >>

DimLen(d) == (CHOOSE r \in { Dimensions[i] : i \in 1..Len(Dimensions) } : r.name = d).size

DTypes ==
    {"float32", "float64", "int16", "int32", "int64", "bool", "string8", "string80", "uint8"}

MkVar(n, t, d, a) == [name |-> n, dtype |-> t, dimensions |-> d, ncattrs |-> a]

\* the variable lists a container may hold
VarLists ==
    {<<>>}
    \cup { << MkVar("a", t, <<"t", "y", "x">>, <<"units">>) >> : t \in DTypes }
    \cup { << MkVar("b", "int32", <<"y", "x">>, <<>>), MkVar("c", t, <<"t">>, <<"long_name">>) >> :
             t \in {"float64", "string80", "bool"} }
    \cup { << MkVar("c", "int64", <<"y", "t">>, <<>>), MkVar("b", "string8", <<"x">>, <<>>) >> }

GroupVarLists ==
    { <<>>,
      << MkVar("b", "int32", <<"y", "x">>, <<>>), MkVar("c", "float64", <<"t">>, <<"long_name">>) >>,
      << MkVar("a", "string80", <<"t", "y", "x">>, <<"units">>) >> }

\* the `variables` argument
Filters == { <<>>, <<"a">>, <<"c", "b", "zz">> }

FullIndices == {None, "c", "f"}

Variables(n) == IF n = 1 THEN rootVars ELSE groupVars

\* f.ncattrs()
GlobalAttrs(n) == IF n = 1 THEN <<"title">> ELSE <<>>

----------------------------------------------------------------------------
(* Arrays *)

\* var.shape: each axis has the current size of the dimension it names
VarShape(v) == [ i \in 1..Len(v.dimensions) |-> DimLen(v.dimensions[i]) ]

RECURSIVE Product(_)
Product(s) == IF s = <<>> THEN 1 ELSE s[1] * Product(Tail(s))

Numel(v) == Product(VarShape(v))

\* position of coordinate tuple c in the C-ordered buffer of an array of shape s
RECURSIVE RavelIndex(_, _)
RavelIndex(c, s) ==
    IF c = <<>> THEN 0
    ELSE c[1] * Product(Tail(s)) + RavelIndex(Tail(c), Tail(s))

\* numpy.ndindex: the coordinate tuples of shape s, last axis fastest
RECURSIVE NdIndex(_)
NdIndex(s) ==
    IF s = <<>> THEN << <<>> >>
    ELSE LET rest == NdIndex(Tail(s))
             RECURSIVE Outer(_)
             Outer(i) ==
                 IF i >= s[1] THEN <<>>
                 ELSE [ j \in 1..Len(rest) |-> <<i>> \o rest[j] ] \o Outer(i + 1)
         IN  Outer(0)

\* the values held by a variable: 1, 2, 3, ... along the C-ordered buffer
ArrayValue(v, c) == 1 + RavelIndex(c, VarShape(v))

\* numpy.ndenumerate(var): (index, value) pairs
NdEnumerate(v) ==
    LET ix == NdIndex(VarShape(v))
    IN  [ j \in 1..Len(ix) |-> [i |-> ix[j], val |-> ArrayValue(v, ix[j])] ]

\* var[...].reshape(shape): rows of the C-ordered buffer
Reshape(v, shape) ==
    LET flat == NdEnumerate(v)
    IN  [ r \in 1..shape[1] |->
            [ c \in 1..shape[2] |-> flat[(r - 1) * shape[2] + c].val ] ]

----------------------------------------------------------------------------
(* Tables and helpers of pncdump *)

NoFmt == [conv |-> "", prec |-> 0]

formats ==
    [ float64 |-> [conv |-> "e", prec |-> double_precision],
      float32 |-> [conv |-> "e", prec |-> float_precision],
      int32   |-> [conv |-> "i", prec |-> 0],
      int64   |-> [conv |-> "i", prec |-> 0],
      str     |-> [conv |-> "s", prec |-> 0],
      bool    |-> [conv |-> "s", prec |-> 0],
      string8 |-> [conv |-> "'s'", prec |-> 0] ]

var_type ==
    [ float32  |-> "float",
      float64  |-> "double",
      int32    |-> "integer",
      int64    |-> "long",
      bool     |-> "bool",
      string8  |-> "char",
      string80 |-> "char" ]

\* indent = 8*" "
indent == 8
\* indent = " " inside the data section
data_indent == 1
\* width of the group start indent, 4*" "
group_indent == 4

startindent(isgroup) == IF isgroup THEN group_indent ELSE 0

\* id_display whose 'f' form reverses the tuple but keeps it 0-based
id_display_zero_based(mode, idx) ==
    IF mode = "f"
    THEN [ i \in 1..Len(idx) |-> idx[Len(idx) + 1 - i] ]
    ELSE idx

\* id_display[full_indices](idx)
id_display(mode, idx) ==
    IF mode = "f"
    THEN [ i \in 1..Len(idx) |-> idx[Len(idx) + 1 - i] + 1 ]
    ELSE idx

\* i == tuple(map(lambda x_: x_ - 1, var.shape))
IsLastIndex(i, shape) == i = [ a \in 1..Len(shape) |-> shape[a] - 1 ]

\* display_variables
display_variables(varlist, variables) ==
    LET keep(v) == (\E i \in 1..Len(variables) : variables[i] = v.name) \/ variables = <<>>
        sel == SelectSeq(varlist, keep)
    IN  [ i \in 1..Len(sel) |-> sel[i].name ]

\* shape2d that takes the first axis alone as the row count
shape2d_first_axis(v) ==
    LET dimensions == VarShape(v)
    IN  IF Len(dimensions) > 1
        THEN << dimensions[1], dimensions[Len(dimensions)] >>
        ELSE <<1>> \o dimensions

\* the shape the reshaped mode collapses a variable to
shape2d(v) ==
    LET dimensions == VarShape(v)
    IN  IF Len(dimensions) > 1
        THEN << Product(SubSeq(dimensions, 1, Len(dimensions) - 1)), dimensions[Len(dimensions)] >>
        ELSE <<1>> \o dimensions

VarNamed(n, name) ==
    LET vs == Variables(n)
    IN  vs[CHOOSE i \in 1..Len(vs) : vs[i].name = name]

\* one successful sys.stdout.write call
Line(call, kind, ind, name, fmt, val, term, idx) ==
    [call |-> call, kind |-> kind, indent |-> ind, name |-> name,
     fmt |-> fmt, val |-> val, term |-> term, idx |-> idx]

----------------------------------------------------------------------------
(* The call stack *)

Top == stack[Len(stack)]

Running == status = "running" /\ stack # <<>>

\* the statements of lines 101-167, guarded by try ... except KeyboardInterrupt
DataPcs == {"data", "select", "var", "elem", "reshape", "rowtuple", "row", "rownl"}

InTry(f) == f.pc \in DataPcs

CurVar(f) == VarNamed(f.node, f.display[f.i])

\* NextSection with the data section placed before the group loop
NextSectionDataFirst(f) ==
    CASE f.pc = "first"   -> "dimensions"
      [] f.pc = "dim"     -> "variables"
      [] f.pc = "decl"    -> "globals"
      [] f.pc = "gattr"   -> IF f.header THEN "group" ELSE "data"
      [] f.pc = "var"     -> "group"
      [] f.pc = "group"   -> "close"

\* the statement that follows a finished section of the function body
NextSection(f) ==
    CASE f.pc = "first"   -> "dimensions"
      [] f.pc = "dim"     -> "variables"
      [] f.pc = "decl"    -> "globals"
      [] f.pc = "gattr"   -> "group"
      [] f.pc = "group"   -> IF f.header THEN "close" ELSE "data"
      [] f.pc = "var"     -> "close"

Enter(f) == [f EXCEPT !.pc = NextSection(f), !.i = 1, !.k = 1]

\* skip the loops that have run out and the statements whose condition is false
RECURSIVE Norm(_)
Norm(f) ==
    LET vs == Variables(f.node)
    IN  CASE f.pc = "first" /\ f.isgroup -> Norm(Enter(f))
          [] f.pc = "dim" /\ f.i > Len(Dimensions) -> Norm(Enter(f))
          [] f.pc = "variables" /\ Len(vs) = 0 -> Norm([f EXCEPT !.pc = "decl", !.i = 1])
          [] f.pc = "decl" /\ f.i > Len(vs) -> Norm(Enter(f))
          [] f.pc = "attr" /\ f.k > Len(vs[f.i].ncattrs) ->
                Norm([f EXCEPT !.pc = "decl", !.i = f.i + 1, !.k = 1])
          [] f.pc = "gattr" /\ f.k > Len(GlobalAttrs(f.node)) -> Norm(Enter(f))
          [] f.pc = "group" /\ (~HasGroups(f.node) \/ f.i > Len(Groups(f.node))) -> Norm(Enter(f))
          [] f.pc = "var" /\ f.i > Len(f.display) -> Norm(Enter(f))
          [] f.pc = "elem" /\ f.k > Numel(CurVar(f)) ->
                Norm([f EXCEPT !.pc = "var", !.i = f.i + 1, !.k = 1])
          [] f.pc = "rowtuple" /\ f.k > shape2d(CurVar(f))[1] ->
                Norm([f EXCEPT !.pc = "var", !.i = f.i + 1, !.k = 1])
          [] OTHER -> f

\* the arguments of a pncdump call
Call(node, header, variables, full_indices, isgroup) ==
    [node |-> node, isgroup |-> isgroup, header |-> header, variables |-> variables,
     full_indices |-> full_indices, pc |-> "first", i |-> 1, k |-> 1,
     display |-> <<>>, rowtuple |-> TRUE]

\* GroupCall that drops the header flag
GroupCallHeaderOff(f, group) == Call(group, FALSE, f.variables, f.full_indices, TRUE)

\* the recursive call of line 96
GroupCall(f, group) == Call(group, f.header, f.variables, f.full_indices, TRUE)

Fault(kind) == [kind |-> kind, pc |-> Top.pc, node |-> Top.node, at |-> Len(out)]

Input == <<tree, rootVars, groupVars, args>>

\* sys.stdout.write(line) succeeded; the call goes on at `next`
Emit(line, next) ==
    /\ out' = Append(out, line)
    /\ stack' = [stack EXCEPT ![Len(stack)] = Norm(next)]
    /\ UNCHANGED <<Input, warnings, status, sink, flushes, faults>>

\* a step that writes nothing
Goto(next) ==
    /\ stack' = [stack EXCEPT ![Len(stack)] = Norm(next)]
    /\ UNCHANGED <<Input, out, warnings, status, sink, flushes, faults>>

\* an exception no handler of pncdump catches: it leaves every active call
Uncaught(kind) ==
    /\ status' = kind
    /\ UNCHANGED <<Input, stack, out, warnings, sink, flushes, faults>>

\* sys.stdout.write raised IOError where no except IOError clause guards it
IOErrorUncaught ==
    /\ Len(faults) < MaxFaults
    /\ faults' = Append(faults, Fault("IOError"))
    /\ status' = "IOError"
    /\ UNCHANGED <<Input, stack, out, warnings, sink, flushes>>

\* KeyboardInterrupt raised in the current statement: lines 168-170 inside the
\* try block, uncaught outside it
Interrupted ==
    /\ Len(faults) < MaxFaults
    /\ faults' = Append(faults, Fault("KeyboardInterrupt"))
    /\ IF InTry(Top)
       THEN /\ flushes' = Append(flushes, Len(out))
            /\ status' = "exit"
       ELSE /\ status' = "KeyboardInterrupt"
            /\ UNCHANGED flushes
    /\ UNCHANGED <<Input, stack, out, warnings, sink>>

----------------------------------------------------------------------------
(* The statements of pncdump *)

Init ==
    /\ tree \in Trees
    /\ rootVars \in VarLists
    /\ groupVars \in (IF Len(tree) = 1 THEN {<<>>} ELSE GroupVarLists)
    /\ \E header \in BOOLEAN :
         \E variables \in (IF header THEN {<<>>} ELSE Filters) :
           \E full_indices \in (IF header THEN {None} ELSE FullIndices) :
             args = [header |-> header, variables |-> variables, full_indices |-> full_indices]
    /\ stack = << Call(1, args.header, args.variables, args.full_indices, FALSE) >>
    /\ out = <<>>
    /\ warnings = <<>>
    /\ status = "running"
    /\ sink = "open"
    /\ flushes = <<>>
    /\ faults = <<>>

\* line 55
FirstLine ==
    /\ Running /\ Top.pc = "first"
    /\ \/ Emit(Line(Top.node, "open", 0, "unknown", NoFmt, <<>>, "{", <<>>), Enter(Top))
       \/ IOErrorUncaught
       \/ Interrupted

\* line 60
DimensionsHeader ==
    /\ Running /\ Top.pc = "dimensions"
    /\ \/ Emit(Line(Top.node, "dimensions:", startindent(Top.isgroup), "", NoFmt, <<>>, "", <<>>),
               [Top EXCEPT !.pc = "dim", !.i = 1])
       \/ IOErrorUncaught
       \/ Interrupted

\* lines 61-65
DimensionLine ==
    /\ Running /\ Top.pc = "dim"
    /\ LET dim == Dimensions[Top.i]
       IN  \/ Emit(Line(Top.node, "dim", startindent(Top.isgroup) + 1 * indent, dim.name, NoFmt,
                        <<dim.size>>, IF dim.unlimited THEN "UNLIMITED" ELSE ";", <<>>),
                   [Top EXCEPT !.i = Top.i + 1])
           \/ IOErrorUncaught
           \/ Interrupted

\* lines 70-71
VariablesHeader ==
    /\ Running /\ Top.pc = "variables"
    /\ \/ Emit(Line(Top.node, "variables:", startindent(Top.isgroup), "", NoFmt, <<>>, "", <<>>),
               [Top EXCEPT !.pc = "decl", !.i = 1])
       \/ IOErrorUncaught
       \/ Interrupted

\* lines 72-80
VariableDecl ==
    /\ Running /\ Top.pc = "decl"
    /\ LET var == Variables(Top.node)[Top.i]
       IN  IF var.dtype \notin DOMAIN var_type
           THEN Uncaught("KeyError")
           ELSE \/ Emit(Line(Top.node, "decl", startindent(Top.isgroup) + 1 * indent, var.name,
                             NoFmt, var.dimensions, var_type[var.dtype], <<>>),
                        [Top EXCEPT !.pc = "attr", !.k = 1])
                \/ IOErrorUncaught
                \/ Interrupted

\* lines 81-83
VariableAttr ==
    /\ Running /\ Top.pc = "attr"
    /\ LET var == Variables(Top.node)[Top.i]
       IN  \/ Emit(Line(Top.node, "attr", startindent(Top.isgroup) + 2 * indent, var.name,
                        NoFmt, <<var.ncattrs[Top.k]>>, ";", <<>>),
                   [Top EXCEPT !.k = Top.k + 1])
           \/ IOErrorUncaught
           \/ Interrupted

\* line 88
GlobalHeader ==
    /\ Running /\ Top.pc = "globals"
    /\ \/ Emit(Line(Top.node, "global:", 0, "", NoFmt, <<>>, "", <<>>),
               [Top EXCEPT !.pc = "gattr", !.k = 1])
       \/ IOErrorUncaught
       \/ Interrupted

\* lines 89-91
GlobalAttr ==
    /\ Running /\ Top.pc = "gattr"
    /\ \/ Emit(Line(Top.node, "gattr", startindent(Top.isgroup) + 2 * indent, "",
                    NoFmt, <<GlobalAttrs(Top.node)[Top.k]>>, ";", <<>>),
               [Top EXCEPT !.k = Top.k + 1])
       \/ IOErrorUncaught
       \/ Interrupted

\* lines 93-96: the marker line, then the recursive call
GroupMarker ==
    /\ Running /\ Top.pc = "group"
    /\ LET group == Groups(Top.node)[Top.i]
       IN  \/ /\ out' = Append(out, Line(Top.node, "group", startindent(Top.isgroup), "",
                                         NoFmt, <<group>>, "", <<>>))
              /\ stack' = Append(stack, Norm(GroupCall(Top, group)))
              /\ UNCHANGED <<Input, warnings, status, sink, flushes, faults>>
           \/ IOErrorUncaught
           \/ Interrupted

\* lines 97-105
DataHeader ==
    /\ Running /\ Top.pc = "data"
    /\ \/ Emit(Line(Top.node, "data:", startindent(Top.isgroup), "", NoFmt, <<>>, "", <<>>),
               [Top EXCEPT !.pc = "select"])
       \/ IOErrorUncaught
       \/ Interrupted

\* lines 112-113: when the warning is issued
warn_unavailable(variables, display) ==
    variables # <<>> /\ Len(variables) < Len(display)

\* lines 108-114
SelectVariables ==
    /\ Running /\ Top.pc = "select"
    /\ \/ LET display == display_variables(Variables(Top.node), Top.variables)
          IN  /\ warnings' = IF warn_unavailable(Top.variables, display)
                             THEN Append(warnings, "Not all specified variables were available")
                             ELSE warnings
              /\ stack' = [stack EXCEPT ![Len(stack)] =
                             Norm([Top EXCEPT !.pc = "var", !.i = 1, !.display = display])]
              /\ UNCHANGED <<Input, out, status, sink, flushes, faults>>
       \/ Interrupted

\* lines 118-121
VariableName ==
    /\ Running /\ Top.pc = "var"
    /\ \/ Emit(Line(Top.node, "var=", startindent(Top.isgroup) + 1 * data_indent,
                    Top.display[Top.i], NoFmt, <<>>, "=", <<>>),
               [Top EXCEPT !.pc = IF Top.full_indices # None THEN "elem" ELSE "reshape",
                           !.k = 1])
       \/ IOErrorUncaught
       \/ Interrupted

\* lines 136-138: except IOError of the full-index loop
IOErrorCloseExit ==
    /\ Len(faults) < MaxFaults
    /\ faults' = Append(faults, Fault("IOError"))
    /\ sink' = "closed"
    /\ status' = "exit"
    /\ UNCHANGED <<Input, stack, out, warnings, flushes>>

\* lines 163-165: except IOError of the reshaped loop
IOErrorWarnExit ==
    /\ Len(faults) < MaxFaults
    /\ faults' = Append(faults, Fault("IOError"))
    /\ warnings' = Append(warnings, "IOError; Typically from CTRL+C or exiting less")
    /\ status' = "exit"
    /\ UNCHANGED <<Input, stack, out, sink, flushes>>

\* lines 125-138: one pass of the ndenumerate loop
ElementLine ==
    /\ Running /\ Top.pc = "elem"
    /\ LET var == CurVar(Top)
           e == NdEnumerate(var)[Top.k]
       IN  IF var.dtype \notin DOMAIN formats
           THEN Uncaught("KeyError")
           ELSE \/ Emit(Line(Top.node, "elem", startindent(Top.isgroup) + 2 * data_indent,
                             var.name, formats[var.dtype], <<e.val>>,
                             IF IsLastIndex(e.i, VarShape(var)) THEN ";" ELSE ",",
                             id_display(Top.full_indices, e.i)),
                        [Top EXCEPT !.k = Top.k + 1])
                \/ IOErrorCloseExit
                \/ Interrupted

\* lines 140-148
ReshapeVar ==
    /\ Running /\ Top.pc = "reshape"
    /\ IF CurVar(Top).dtype \notin DOMAIN formats
       THEN Uncaught("KeyError")
       ELSE \/ Goto([Top EXCEPT !.pc = "rowtuple", !.k = 1])
            \/ Interrupted

\* lines 150-153: the bare except also catches a KeyboardInterrupt raised while
\* tuple(row) runs; row then stays an array
RowTuple ==
    /\ Running /\ Top.pc = "rowtuple"
    /\ \/ Goto([Top EXCEPT !.pc = "row", !.rowtuple = TRUE])
       \/ /\ Len(faults) < MaxFaults
          /\ faults' = Append(faults, Fault("KeyboardInterrupt"))
          /\ stack' = [stack EXCEPT ![Len(stack)] = [Top EXCEPT !.pc = "row", !.rowtuple = FALSE]]
          /\ UNCHANGED <<Input, out, warnings, status, sink, flushes>>

\* fmt % row succeeds for a tuple of shape[-1] values; an array that was not
\* converted is taken as one value
FormatOk(f, shape) == f.rowtuple \/ shape[2] <= 1

\* the test that ends a row with ';'
IsLastRow(rowi, shape) == rowi = shape[1] - 1

\* lines 154-161
RowWrite ==
    /\ Running /\ Top.pc = "row"
    /\ LET var == CurVar(Top)
           shape == shape2d(var)
           row == Reshape(var, shape)[Top.k]
       IN  IF ~FormatOk(Top, shape)
           THEN Uncaught("TypeError")
           ELSE \/ Emit(Line(Top.node, "row", startindent(Top.isgroup) + 2, var.name,
                             formats[var.dtype], row,
                             IF IsLastRow(Top.k - 1, shape) THEN ";" ELSE ",", <<>>),
                        [Top EXCEPT !.pc = "rownl"])
                \/ IOErrorWarnExit
                \/ Interrupted

\* line 162
RowNewline ==
    /\ Running /\ Top.pc = "rownl"
    /\ \/ Emit(Line(Top.node, "nl", 0, CurVar(Top).name, NoFmt, <<>>, "", <<>>),
               [Top EXCEPT !.pc = "rowtuple", !.k = Top.k + 1])
       \/ IOErrorWarnExit
       \/ Interrupted

\* line 171, then the return to the caller's group loop
CloseLine ==
    /\ Running /\ Top.pc = "close"
    /\ \/ /\ out' = Append(out, Line(Top.node, "close", 0, "", NoFmt, <<>>, "}", <<>>))
          /\ IF Len(stack) = 1
             THEN /\ stack' = <<>>
                  /\ status' = "returned"
             ELSE /\ LET caller == stack[Len(stack) - 1]
                     IN  stack' = [SubSeq(stack, 1, Len(stack) - 1) EXCEPT ![Len(stack) - 1] =
                                     Norm([caller EXCEPT !.i = caller.i + 1])]
                  /\ UNCHANGED status
          /\ UNCHANGED <<Input, warnings, sink, flushes, faults>>
       \/ IOErrorUncaught
       \/ Interrupted

Next ==
    \/ FirstLine
    \/ DimensionsHeader
    \/ DimensionLine
    \/ VariablesHeader
    \/ VariableDecl
    \/ VariableAttr
    \/ GlobalHeader
    \/ GlobalAttr
    \/ GroupMarker
    \/ DataHeader
    \/ SelectVariables
    \/ VariableName
    \/ ElementLine
    \/ ReshapeVar
    \/ RowTuple
    \/ RowWrite
    \/ RowNewline
    \/ CloseLine

Spec == Init /\ [][Next]_vars

----------------------------------------------------------------------------
(* Reading the output *)

Kinds(K) == { i \in 1..Len(out) : out[i].kind \in K }

Count(kind) == Cardinality(Kinds({kind}))

\* the section a write belongs to, in the order of section 4.1
Rank(kind) ==
    CASE kind = "open" -> 0
      [] kind \in {"dimensions:", "dim"} -> 1
      [] kind \in {"variables:", "decl", "attr"} -> 2
      [] kind \in {"global:", "gattr"} -> 3
      [] kind = "group" -> 4
      [] kind \in {"data:", "var=", "elem", "row", "nl"} -> 5
      [] kind = "close" -> 6

DataKinds == {"data:", "var=", "elem", "row", "nl"}

IsAncestor(a, n) == a \in Ancestors(tree, n)

\* the writes of kind `kind` the call of node c made for variable v, in order
LinesOf(c, v, kind) ==
    LET mine(l) == l.call = c /\ l.name = v /\ l.kind = kind
    IN  SelectSeq(out, mine)

\* the call of node c wrote something after its last line of `kind` for v:
\* the loop over v's values has run to its end
Finished(c, v, kind) ==
    \E i \in 1..Len(out) :
        /\ out[i].call = c /\ out[i].name = v /\ out[i].kind = kind
        /\ \E j \in (i + 1)..Len(out) : out[j].call = c /\ out[j].kind \in {"var=", "close"}

\* coordinate tuple of the k-th (0-based) element in row-major order
Unravel(k, shape) ==
    [ a \in 1..Len(shape) |->
        (k \div Product(SubSeq(shape, a + 1, Len(shape)))) % shape[a] ]

Reversed1(c) == [ a \in 1..Len(c) |-> c[Len(c) + 1 - a] + 1 ]

VarNames(n) == { Variables(n)[i].name : i \in 1..Len(Variables(n)) }

Nodes == 1..Len(tree)

----------------------------------------------------------------------------
(* Claims *)

\* C1: a render that returns has written the opening '{' line once, by the
\* top-level call, and as many closing '}' lines as opening lines.
C1_BraceBalanced ==
    status = "returned" =>
        /\ Count("open") = 1
        /\ \A i \in Kinds({"open"}) : out[i].call = 1
        /\ Count("close") = Count("open")

\* C2: the writes of every call follow the order dimensions, variables,
\* globals, groups, data, closing line; the whole block of a group lies after
\* its marker in the caller's group section, groups come in insertion order
\* and each is closed before the caller writes again; nothing follows a call's
\* closing line.  (out only grows at its end, so the last write is compared
\* with every earlier one.)
C2_SectionOrder ==
    \A j \in {Len(out)} \ {0} :
        LET b == out[j]
            above == Ancestors(tree, b.call)
            below == { n \in Nodes : b.call \in Ancestors(tree, n) }
        IN  /\ b.kind \in DataKinds => ~args.header
            /\ \A i \in 1..(j - 1) :
                 LET a == out[i]
                 IN  /\ a.call = b.call => Rank(a.kind) <= Rank(b.kind) /\ a.kind # "close"
                     /\ a.call \in above => Rank(a.kind) <= 4
                     /\ a.call \in below =>
                           /\ Rank(b.kind) >= 4
                           /\ \E m \in i..(j - 1) :
                                 /\ out[m].kind = "close" /\ tree[out[m].call] = b.call
                                 /\ out[m].call = a.call \/ IsAncestor(out[m].call, a.call)
                     /\ (a.call # b.call /\ a.call \notin above /\ a.call \notin below) =>
                           a.call < b.call
                     /\ (i = j - 1 /\ a.call \in above) =>
                           a.kind = "group" /\ a.val = <<b.call>> /\ tree[b.call] = a.call
                     /\ (b.kind \in DataKinds \ {"data:"} /\ i = j - 1) =>
                           a.kind \in DataKinds /\ a.call = b.call

C2_Witness ==
    /\ status = "returned"
    /\ \E i, j, k \in 1..Len(out) :
          /\ i < j /\ j < k
          /\ out[i].kind = "data:" /\ out[i].call = 3 /\ tree[3] = 2
          /\ out[j].kind = "data:" /\ out[j].call = 2
          /\ out[k].kind = "data:" /\ out[k].call = 1

\* C3: an IOError raised by a write of the data section ends the render
\* cleanly (no IOError reaches the caller) and nothing more is written.
C3_IOErrorClean ==
    \A n \in 1..Len(faults) :
        (faults[n].kind = "IOError" /\ faults[n].pc \in DataPcs) =>
            /\ status = "exit"
            /\ Len(out) = faults[n].at

\* C4: a KeyboardInterrupt raised in the data section flushes the sink and
\* ends the whole render; nothing is written after it.
C4_InterruptStops ==
    \A n \in 1..Len(faults) :
        (faults[n].kind = "KeyboardInterrupt" /\ faults[n].pc \in DataPcs) =>
            /\ status = "exit"
            /\ \E m \in 1..Len(flushes) : flushes[m] = faults[n].at
            /\ Len(out) = faults[n].at

\* C5: with header = true no 'data:' line, no '<var> =' line and no value is
\* written by the top-level call or by any group call.
C5_HeaderOnly ==
    args.header => \A i \in 1..Len(out) : out[i].kind \notin DataKinds

C5_Witness ==
    /\ args.header
    /\ status = "returned"
    /\ \E i \in 1..Len(out) : out[i].kind = "close" /\ Depth(out[i].call) = 2

\* C6: a non-empty filter that names a variable the container does not hold
\* yields the 'Not all specified variables were available' warning, and the
\* data section renders the requested names that are present, in the
\* container's order.
C6_WarnsOnMissing ==
    LET requested == { args.variables[i] : i \in 1..Len(args.variables) }
        present == display_variables(rootVars, args.variables)
        shown == LET mine(l) == l.call = 1 /\ l.kind = "var=" IN SelectSeq(out, mine)
    IN  (/\ status = "returned"
         /\ ~args.header
         /\ requested # {}
         /\ requested \ VarNames(1) # {}) =>
            /\ \E w \in 1..Len(warnings) :
                   warnings[w] = "Not all specified variables were available"
            /\ [ i \in 1..Len(shown) |-> shown[i].name ] = present

\* C7: the section header lines and the group marker lines written by the
\* call of a group at depth d are indented by 4*d spaces.
C7_IndentByDepth ==
    \A i \in Kinds({"dimensions:", "variables:", "data:", "group"}) :
        out[i].indent = 4 * Depth(out[i].call)

\* the element types the specification enumerates
Enumeration ==
    {"float32", "float64", "int16", "int32", "int64", "bool", "string8", "string80"}

\* C8: a render fails with an unmapped type only for an element type outside
\* the enumeration, and never in the data section for a variable whose
\* declaration was written.
C8_UnmappedOnlyOutside ==
    status = "KeyError" =>
        /\ \E n \in Nodes : \E i \in 1..Len(Variables(n)) :
               Variables(n)[i].dtype \notin Enumeration
        /\ Top.pc = "decl"

\* C9: in full-index mode the j-th line written for a variable holds the j-th
\* element in row-major order, ends with ';' exactly when it is the last
\* element, and shows the element's coordinates as they are in 'c' mode and
\* reversed and 1-based in 'f' mode; once the loop is over there is one line
\* per element.  (Checked for the call that wrote last: the lines of the other
\* calls are as they were.)
C9_FullIndexLines ==
    \A n \in {Len(out)} \ {0} : \A c \in {out[n].call} : \A v \in VarNames(c) :
        out[n].kind \in {"elem", "var=", "close"} =>
            LET var == VarNamed(c, v)
                shape == VarShape(var)
                lines == LinesOf(c, v, "elem")
            IN  /\ \A j \in 1..Len(lines) :
                      LET coord == Unravel(j - 1, shape)
                      IN  /\ j <= Numel(var)
                          /\ lines[j].val = <<ArrayValue(var, coord)>>
                          /\ lines[j].term = (IF j = Numel(var) THEN ";" ELSE ",")
                          /\ args.full_indices \in {"c", "f"}
                          /\ args.full_indices = "c" => lines[j].idx = coord
                          /\ args.full_indices = "f" => lines[j].idx = Reversed1(coord)
                /\ Finished(c, v, "elem") => Len(lines) = Numel(var)

C9_Witness ==
    /\ status = "returned"
    /\ args.full_indices = "f"
    /\ \E i, j \in 1..Len(out) :
          /\ out[i].kind = "elem" /\ out[i].term = ";" /\ out[i].call # 1
          /\ out[j].kind = "elem" /\ out[j].term = ";" /\ Len(out[j].idx) = 3

\* C10: in reshaped mode a variable is written as one row block per
\* combination of its leading axes (one block for a single axis), each block
\* holds lastAxisSize values in row-major order, the last block ends with ';'
\* and every earlier one with ','.  (Checked for the call that wrote last.)
C10_ReshapedRows ==
    \A n \in {Len(out)} \ {0} : \A c \in {out[n].call} : \A v \in VarNames(c) :
        out[n].kind \in {"row", "var=", "close"} =>
            LET var == VarNamed(c, v)
                shape == VarShape(var)
                last == shape[Len(shape)]
                nrows == Product(SubSeq(shape, 1, Len(shape) - 1))
                lines == LinesOf(c, v, "row")
            IN  /\ \A r \in 1..Len(lines) :
                      /\ r <= nrows
                      /\ Len(lines[r].val) = last
                      /\ \A x \in 1..last :
                            lines[r].val[x] =
                                ArrayValue(var, Unravel((r - 1) * last + x - 1, shape))
                      /\ lines[r].term = (IF r = nrows THEN ";" ELSE ",")
                      /\ args.full_indices = None
                /\ Finished(c, v, "row") => Len(lines) = nrows

C10_Witness ==
    /\ status = "returned"
    /\ args.full_indices = None
    /\ \E i, j \in 1..Len(out) :
          /\ i < j
          /\ out[i].kind = "row" /\ out[i].name = "a" /\ out[i].term = ","
          /\ out[j].kind = "row" /\ out[j].name = "a" /\ out[j].term = ";"
    /\ \E i \in 1..Len(out) :
          /\ out[i].kind = "row" /\ out[i].name = "c" /\ out[i].call # 1 /\ out[i].term = ";"
          /\ Len(VarNamed(out[i].call, "c").dimensions) = 1

====
